---- MODULE Spec2Model ----
(***************************************************************************)
(* A model of megatron/data/non_causal_mlm_dataset.py: the sample index    *)
(* builder (get_samples_mapping and its breakdown helper), the build-once  *)
(* protocol across the ranks of the world, the length planner, the noise   *)
(* mask generator, the sentinel encoder, the sequence assembler and the    *)
(* dataset object that calls them (NonCausalMLMDataset).                   *)
(***************************************************************************)
EXTENDS Integers, Sequences, FiniteSets, TLC

VARIABLES
    \* ---- the builder loop of get_samples_mapping (lines 298-324)
    sizes,            \* indexed_dataset.sizes: the length of each document
    max_len,          \* the window length the mapping is built for
    doc_i,            \* how many (doc_idx, sample_len) pairs the for loop has consumed
    samples_mapping,  \* the emitted samples, each a sequence of <<doc, start, end>>
    sample_indices,   \* the open accumulator
    current_len,      \* the number of tokens in the open accumulator
    build_pc,         \* "idle", "loop", "saved" or "TypeError"
    remainder,        \* the sample_len last handed to breakdown (-1 before the first)
    file,             \* the index map file: [state, max_len, mapping]
    \* ---- the ranks of the world in get_samples_mapping (lines 283-354)
    topo,             \* the sizes of the parallel groups: [tp, pp, dp]
    call_len,         \* the max_len argument of each construction of the dataset
    pc,               \* where each rank is in get_samples_mapping
    round,            \* which construction of the dataset each rank is in
    dp_seq,           \* how many all_reduce calls on its data parallel group each rank made
    pp_seq,           \* the same on its pipeline model parallel group
    counts,           \* the tensor each rank reduces
    loaded,           \* what np.load returned to each rank
    writes,           \* how many times np.save was called on the file
    \* ---- compute_input_and_target_lengths (lines 390-432)
    inputs_length,    \* the desired length of the input stream
    noise_density,    \* in hundredths: 15 is the density 0.15
    mean_noise_span_length,
    tokens_length,    \* the candidate raw length
    targets_length,   \* the returned target length (0 before the return)
    plan_pc,          \* "idle", "loop" or "returned"
    \* ---- random_spans_noise_mask (lines 435-498)
    gen_length,       \* length
    gen_density,      \* noise_density in hundredths
    gen_mean,         \* mean_noise_span_length
    gen_out,          \* what the call came to: [err, mask]
    gen_pc,           \* "idle", "returned" or "raised"
    \* ---- build_training_sample (lines 218-252)
    expanded_inputs_length,
    tokens,           \* the flattened token ids of the sample
    vocab_len,        \* len(vocab_id_list)
    eos_id,
    mask_indices,     \* the noise mask as 0/1 (astype(np.int8))
    input_ids_sentinel,
    labels_sentinel,
    text,             \* text_tokens_ids
    prefix_len,
    sample_pc,        \* "idle", "masked", "encoded", "returned", or the error raised
    \* ---- NonCausalMLMDataset (lines 152-215)
    self,             \* the dataset object: its fields, and where __init__ is
    configs,          \* max_seq_length and masked_lm_prob of each construction
    tokenizer         \* len(tokenizer.additional_special_tokens_ids)

buildVars == <<sizes, max_len, doc_i, samples_mapping, sample_indices,
               current_len, build_pc, remainder, file>>

rankVars == <<topo, call_len, pc, round, dp_seq, pp_seq, counts, loaded, writes>>

planVars == <<inputs_length, noise_density, mean_noise_span_length,
              tokens_length, targets_length, plan_pc>>

genVars == <<gen_length, gen_density, gen_mean, gen_out, gen_pc>>

sampleVars == <<expanded_inputs_length, tokens, vocab_len, eos_id, mask_indices,
                input_ids_sentinel, labels_sentinel, text, prefix_len, sample_pc>>

dsVars == <<self, configs, tokenizer>>

vars == <<buildVars, rankVars, planVars, genVars, sampleVars, dsVars>>

\* ------------------------------------------------------------------ bounds

MaxDocs == 3
MaxDocLen == 5
MaxWindow == 5
MaxInputsLength == 513
MaxMaskLen == 9
MaxSentinelLen == 6
MaxSampleLen == 32
MaxWorld == 3
MaxConstructions == 2

\* ------------------------------------------------------------- sequences

RECURSIVE SumSeq(_)
SumSeq(s) == IF s = <<>> THEN 0 ELSE Head(s) + SumSeq(Tail(s))

RECURSIVE SeqsUpTo(_, _)
\* all sequences over S of length 0..n
SeqsUpTo(S, n) ==
    IF n = 0 THEN {<<>>}
    ELSE LET shorter == SeqsUpTo(S, n - 1)
         IN  shorter \cup {Append(s, x) : s \in {t \in shorter : Len(t) = n - 1}, x \in S}

\* ------------------------------------------------ breakdown (lines 257-275)

\* Python's None, the default of breakdown's max_len parameter (no length is
\* negative, so -1 stands for it)
None == -1

\* The body of breakdown up to its recursive call: what it appends to the
\* shared idx_list. The recursive call of line 272 passes no max_len, so the
\* callee compares sample_len with None, which raises TypeError.
RECURSIVE BreakdownAppend(_, _, _, _)
BreakdownAppend(sample_len, idx_offset, idx_list, mx) ==
    IF mx = None
    THEN [err |-> TRUE, list |-> idx_list]
    ELSE IF sample_len < mx
         THEN [err |-> FALSE, list |-> Append(idx_list, idx_offset + sample_len)]
         ELSE BreakdownAppend(sample_len - mx, idx_offset + mx,
                              Append(idx_list, idx_offset + mx), None)

\* lines 274-275: list(zip(idx_list[:-1], idx_list[1:])) of [0] + idx_list
ZipPairs(l) == [k \in 1..(Len(l) - 1) |-> <<l[k], l[k + 1]>>]

breakdown(sample_len, mx) ==
    LET r == BreakdownAppend(sample_len, 0, <<>>, mx)
    IN  [err |-> r.err, indices |-> ZipPairs(<<0>> \o r.list)]

\* ------------------------------------- the builder loop (lines 298-324)

\* zip(indexed_dataset.doc_idx, indexed_dataset.sizes), line 303: one sentence
\* per document, so that doc_idx is 0, 1, ..., n and zip stops with sizes.
doc_idx(sz) == [k \in 1..(Len(sz) + 1) |-> k - 1]

ZipLen(sz) == IF Len(doc_idx(sz)) < Len(sz) THEN Len(doc_idx(sz)) ELSE Len(sz)

\* line 306
Flush(cur, sample_len, mx) == cur + sample_len > mx

\* line 307
EndIdxWholeWindow(mx, cur) == mx
EndIdx(mx, cur) == mx - cur

\* lines 321 and 323: a span of the document, shifted by what the flush took
SpanOfUnshifted(doc, start_idx, end_idx, idx) == <<doc, start_idx, end_idx>>
SpanOf(doc, start_idx, end_idx, idx) == <<doc, start_idx + idx, end_idx + idx>>

\* lines 318-324: the loop over the indices breakdown returned, from the
\* state st = [mapping, acc, cur]
RECURSIVE Distribute(_, _, _, _, _)
Distribute(indices, doc, idx, mx, st) ==
    IF indices = <<>> THEN st
    ELSE LET p == Head(indices)
             len == p[2] - p[1]
             span == SpanOf(doc, p[1], p[2], idx)
         IN  Distribute(Tail(indices), doc, idx, mx,
                 IF len = mx
                 THEN [st EXCEPT !.mapping = Append(@, <<span>>)]
                 ELSE [st EXCEPT !.acc = Append(@, span), !.cur = @ + len])

\* One iteration of the for loop of line 303 on (doc, sample_len), from the
\* state st: [mapping, acc, cur, err, rem]
LoopBody(doc, sample_len, mx, st) ==
    LET flush == Flush(st.cur, sample_len, mx)
        end_idx == EndIdx(mx, st.cur)
        afterFlush ==
            IF flush
            THEN [mapping |-> Append(st.mapping, Append(st.acc, <<doc, 0, end_idx>>)),
                  acc |-> <<>>, cur |-> 0]
            ELSE [mapping |-> st.mapping, acc |-> st.acc, cur |-> st.cur]
        rest == IF flush THEN sample_len - end_idx ELSE sample_len
        idx == IF flush THEN end_idx ELSE 0
        b == breakdown(rest, mx)
        after == IF b.err THEN afterFlush
                 ELSE Distribute(b.indices, doc, idx, mx, afterFlush)
    IN  [mapping |-> after.mapping, acc |-> after.acc, cur |-> after.cur,
         err |-> b.err, rem |-> rest]

\* lines 283-301: rank 0 finds no index map file and starts the build
StartBuild ==
    /\ build_pc = "idle"
    /\ build_pc' = "loop"
    /\ samples_mapping' = <<>>
    /\ sample_indices' = <<>>
    /\ current_len' = 0
    /\ doc_i' = 0
    /\ UNCHANGED <<dsVars, sizes, max_len, remainder, file, planVars, genVars, sampleVars,
                   rankVars>>

\* lines 303-324: one document
BuildDoc ==
    /\ build_pc = "loop"
    /\ doc_i < ZipLen(sizes)
    /\ LET r == LoopBody(doc_idx(sizes)[doc_i + 1], sizes[doc_i + 1], max_len,
                         [mapping |-> samples_mapping, acc |-> sample_indices,
                          cur |-> current_len])
       IN  /\ samples_mapping' = r.mapping
           /\ sample_indices' = r.acc
           /\ current_len' = r.cur
           /\ remainder' = r.rem
           /\ build_pc' = IF r.err THEN "TypeError" ELSE "loop"
    /\ doc_i' = doc_i + 1
    /\ UNCHANGED <<dsVars, sizes, max_len, file, planVars, genVars, sampleVars, rankVars>>

\* line 327, np.save: the file is created and its content written ...
SaveBegin ==
    /\ build_pc = "loop"
    /\ doc_i = ZipLen(sizes)
    /\ build_pc' = "saving"
    /\ file' = [state |-> "partial", max_len |-> max_len, mapping |-> <<>>]
    /\ writes' = writes + 1
    /\ UNCHANGED <<dsVars, sizes, max_len, doc_i, samples_mapping, sample_indices,
                   current_len, remainder, planVars, genVars, sampleVars,
                   topo, call_len, pc, round, dp_seq, pp_seq, counts, loaded>>

\* ... and the write is over: the file holds samples_mapping; the open
\* accumulator is not saved
SaveEnd ==
    /\ build_pc = "saving"
    /\ build_pc' = "saved"
    /\ file' = [state |-> "complete", max_len |-> max_len, mapping |-> samples_mapping]
    /\ UNCHANGED <<dsVars, sizes, max_len, doc_i, samples_mapping, sample_indices,
                   current_len, remainder, planVars, genVars, sampleVars, rankVars>>

NoFile == [state |-> "absent", max_len |-> 0, mapping |-> <<>>]

\* the builder before it has run, on the documents sz and the window mx
BuildInit(sz, mx) ==
    /\ sizes = sz
    /\ max_len = mx
    /\ doc_i = 0
    /\ samples_mapping = <<>>
    /\ sample_indices = <<>>
    /\ current_len = 0
    /\ build_pc = "idle"
    /\ remainder = -1
    /\ file = NoFile

\* the world before any rank has called get_samples_mapping; each
\* construction k of the dataset passes the window length lens[k]
RankInit(t, lens) ==
    /\ topo = t
    /\ call_len = lens
    /\ pc = [p \in 0..(t.tp * t.pp * t.dp - 1) |-> "start"]
    /\ round = [p \in 0..(t.tp * t.pp * t.dp - 1) |-> 1]
    /\ dp_seq = [p \in 0..(t.tp * t.pp * t.dp - 1) |-> 0]
    /\ pp_seq = [p \in 0..(t.tp * t.pp * t.dp - 1) |-> 0]
    /\ counts = [p \in 0..(t.tp * t.pp * t.dp - 1) |-> 0]
    /\ loaded = [p \in 0..(t.tp * t.pp * t.dp - 1) |-> NoFile]
    /\ writes = 0

\* a world of one rank
OneRank == [tp |-> 1, pp |-> 1, dp |-> 1]

\* the planner before it has run
PlanInit(w, d, m) ==
    /\ inputs_length = w
    /\ noise_density = d
    /\ mean_noise_span_length = m
    /\ tokens_length = 0
    /\ targets_length = 0
    /\ plan_pc = "idle"

\* the mask generator before the call
GenInit(l, d, m) ==
    /\ gen_length = l
    /\ gen_density = d
    /\ gen_mean = m
    /\ gen_out = [err |-> "none", mask |-> <<>>]
    /\ gen_pc = "idle"

\* no dataset object yet; cfgs are the arguments of the constructions to
\* come and tk the number of sentinel ids of the tokenizer
NoDataset ==
    [pc |-> "none", max_seq_length |-> 0, masked_lm_prob |-> 0,
     expanded_inputs_length |-> 0, targets_length |-> 0, samples_mapping |-> <<>>]

DatasetInit(cfgs, tk) ==
    /\ self = NoDataset
    /\ configs = cfgs
    /\ tokenizer = tk

\* build_training_sample before the call
SampleInit(e, tk, v, eos) ==
    /\ expanded_inputs_length = e
    /\ tokens = tk
    /\ vocab_len = v
    /\ eos_id = eos
    /\ mask_indices = <<>>
    /\ input_ids_sentinel = <<>>
    /\ labels_sentinel = <<>>
    /\ text = <<>>
    /\ prefix_len = 0
    /\ sample_pc = "idle"

InitPack ==
    /\ \E sz \in SeqsUpTo(1..MaxDocLen, MaxDocs) \ {<<>>}, mx \in 1..MaxWindow :
           BuildInit(sz, mx)
    /\ PlanInit(1, 15, 3)
    /\ RankInit(OneRank, <<1>>)
    /\ GenInit(2, 15, 3)
    /\ SampleInit(2, <<0, 1>>, 4, 1)
    /\ DatasetInit(<<>>, 0)

NextPack == StartBuild \/ BuildDoc \/ SaveBegin \/ SaveEnd

SpecPack == InitPack /\ [][NextPack]_vars

\* ------------------------------------------------------------- rounding

\* round(num / den) as Python's round and np.round do it on a float: to the
\* nearest integer, a tie to the even one (num >= 0, den > 0)
RoundHalfEven(num, den) ==
    LET q == num \div den
        r == num % den
    IN  IF 2 * r < den THEN q
        ELSE IF 2 * r > den THEN q + 1
        ELSE IF q % 2 = 0 THEN q ELSE q + 1

\* ------------------- compute_input_and_target_lengths (lines 390-432)

\* lines 410-418, the density d in hundredths
TokensLengthToLengths(t, d, m) ==
    LET num_noise_tokens == RoundHalfEven(t * d, 100)
        num_nonnoise_tokens == t - num_noise_tokens
        num_noise_spans == RoundHalfEven(num_noise_tokens, m)
    IN  [input |-> num_nonnoise_tokens + num_noise_spans + 1,
         output |-> num_noise_tokens + num_noise_spans + 1]

\* line 422, the condition of the while loop
PlanContinueStrict(t, w, d, m) == TokensLengthToLengths(t + 1, d, m).input < w
PlanContinue(t, w, d, m) == TokensLengthToLengths(t + 1, d, m).input <= w

\* line 420
PlanStart ==
    /\ plan_pc = "idle"
    /\ tokens_length' = inputs_length
    /\ plan_pc' = "loop"
    /\ UNCHANGED <<dsVars, inputs_length, noise_density, mean_noise_span_length,
                   targets_length, buildVars, genVars, sampleVars, rankVars>>

\* lines 422-423, one turn of the loop
PlanGrow ==
    /\ plan_pc = "loop"
    /\ PlanContinue(tokens_length, inputs_length, noise_density,
                    mean_noise_span_length)
    /\ tokens_length' = tokens_length + 1
    /\ UNCHANGED <<dsVars, inputs_length, noise_density, mean_noise_span_length,
                   targets_length, plan_pc, buildVars, genVars, sampleVars, rankVars>>

\* lines 425-432: the loop is left, the lengths are recomputed and, for a
\* density of 0.5 with the targets longer than the inputs, both shortened
PlanReturn ==
    /\ plan_pc = "loop"
    /\ ~PlanContinue(tokens_length, inputs_length, noise_density,
                     mean_noise_span_length)
    /\ LET l == TokensLengthToLengths(tokens_length, noise_density,
                                      mean_noise_span_length)
           hack == noise_density = 50 /\ l.output > l.input
       IN  /\ tokens_length' = IF hack THEN tokens_length - 1 ELSE tokens_length
           /\ targets_length' = IF hack THEN l.output - 1 ELSE l.output
    /\ plan_pc' = "returned"
    /\ UNCHANGED <<dsVars, inputs_length, noise_density, mean_noise_span_length, buildVars,
                   genVars, sampleVars, rankVars>>

InitPlan ==
    /\ \E w \in 1..MaxInputsLength, d \in {15, 50}, m \in {1, 3} : PlanInit(w, d, m)
    /\ BuildInit(<<1>>, 1)
    /\ RankInit(OneRank, <<1>>)
    /\ GenInit(2, 15, 3)
    /\ SampleInit(2, <<0, 1>>, 4, 1)
    /\ DatasetInit(<<>>, 0)

NextPlan == PlanStart \/ PlanGrow \/ PlanReturn

SpecPlan == InitPlan /\ [][NextPlan]_vars

\* --------------------------- random_spans_noise_mask (lines 435-498)

Min(a, b) == IF a < b THEN a ELSE b
Max(a, b) == IF a > b THEN a ELSE b

RECURSIVE KSubsets(_, _)
\* the subsets of 1..n with k elements
KSubsets(n, k) ==
    IF k = 0 THEN {{}}
    ELSE IF n < k THEN {}
    ELSE KSubsets(n - 1, k) \cup {c \cup {n} : c \in KSubsets(n - 1, k - 1)}

RECURSIVE SortedSeq(_)
SortedSeq(c) ==
    IF c = {} THEN <<>>
    ELSE LET lo == CHOOSE x \in c : \A y \in c : x <= y
         IN  <<lo>> \o SortedSeq(c \ {lo})

RECURSIVE Cumsum(_)
Cumsum(q) ==
    IF q = <<>> THEN <<>>
    ELSE LET front == Cumsum(SubSeq(q, 1, Len(q) - 1))
         IN  Append(front, (IF front = <<>> THEN 0 ELSE front[Len(front)]) + q[Len(q)])

\* lines 459-461: the number of noise tokens, clamped to 1..length-1
NumNoiseTokens(length, d) == Min(Max(RoundHalfEven(length * d, 100), 1), length - 1)

\* lines 462-465
NumNoiseSpans(num_noise_tokens, m) == Max(RoundHalfEven(num_noise_tokens, m), 1)

\* lines 478-484 for one outcome of the shuffle: the indicator array has
\* num_items - 1 entries, padded to `total` by line 480, and is true at `cuts`
SegmentLengths(cuts, total) ==
    LET b == <<0>> \o SortedSeq(cuts) \o <<total>>
    IN  [k \in 1..(Len(b) - 1) |-> b[k + 1] - b[k]]

\* lines 469-484, _random_segmentation: every outcome of np.random.shuffle.
\* np.arange(num_items - 1) is empty for num_items <= 1, and holds
\* num_segments - 1 true entries, or fewer when it is shorter than that.
RandomSegmentation(num_items, num_segments) ==
    LET n1 == Max(num_items - 1, 0)
        k == Min(Max(num_segments - 1, 0), n1)
    IN  {SegmentLengths(cuts, n1 + 1) : cuts \in KSubsets(n1, k)}

\* line 496
IsNoiseEvenSpans(span_num) == span_num % 2 = 0
IsNoise(span_num) == span_num % 2 = 1

\* lines 489-498 on the two segmentations drawn
MaskOfSegments(length, num_noise_spans, nonnoise, noise) ==
    IF Len(nonnoise) # Len(noise) \/ Len(noise) # num_noise_spans
    THEN [err |-> "ValueError", mask |-> <<>>]       \* np.stack, np.reshape
    ELSE LET interleaved == [k \in 1..(2 * num_noise_spans) |->
                                IF k % 2 = 1 THEN nonnoise[(k + 1) \div 2]
                                ELSE noise[k \div 2]]
             sums == Cumsum(interleaved)
             span_starts == {sums[k] : k \in 1..(Len(sums) - 1)}
         IN  IF \E st \in span_starts : st >= length
             THEN [err |-> "IndexError", mask |-> <<>>]   \* line 494
             ELSE LET span_num == Cumsum([k \in 1..length |->
                                      IF (k - 1) \in span_starts THEN 1 ELSE 0])
                  IN  [err |-> "none",
                       mask |-> [k \in 1..length |-> IsNoise(span_num[k])]]

\* random_spans_noise_mask(length, d, m): every outcome of the two shuffles
random_spans_noise_mask(length, d, m) ==
    LET num_noise_tokens == NumNoiseTokens(length, d)
        num_noise_spans == NumNoiseSpans(num_noise_tokens, m)
        num_nonnoise_tokens == length - num_noise_tokens
    IN  {MaskOfSegments(length, num_noise_spans, nonnoise, noise) :
            noise \in RandomSegmentation(num_noise_tokens, num_noise_spans),
            nonnoise \in RandomSegmentation(num_nonnoise_tokens, num_noise_spans)}

\* one call of random_spans_noise_mask
GenerateMask ==
    /\ gen_pc = "idle"
    /\ \E out \in random_spans_noise_mask(gen_length, gen_density, gen_mean) :
           /\ gen_out' = out
           /\ gen_pc' = IF out.err = "none" THEN "returned" ELSE "raised"
    /\ UNCHANGED <<dsVars, gen_length, gen_density, gen_mean, buildVars, planVars, sampleVars,
                   rankVars>>

InitMask ==
    /\ \E l \in 1..MaxMaskLen, d \in {15, 50, 75}, m \in 1..3 : GenInit(l, d, m)
    /\ BuildInit(<<1>>, 1)
    /\ PlanInit(1, 15, 3)
    /\ RankInit(OneRank, <<1>>)
    /\ SampleInit(2, <<0, 1>>, 4, 1)
    /\ DatasetInit(<<>>, 0)

NextMask == GenerateMask

SpecMask == InitMask /\ [][NextMask]_vars

\* ------------------------------- create_sentinel_ids (lines 357-370)

\* np.roll(mask_indices, 1, axis=-1): the last entry comes first
Roll(mask) == [k \in 1..Len(mask) |-> mask[((k - 2) % Len(mask)) + 1]]

\* lines 363-364
StartIndicesWrapped(mask) == [k \in 1..Len(mask) |-> mask[k] - Roll(mask)[k] * mask[k]]
StartIndices(mask) ==
    [k \in 1..Len(mask) |->
        IF k = 1 THEN mask[1] ELSE mask[k] - Roll(mask)[k] * mask[k]]

\* lines 366-370
create_sentinel_ids(mask, vocab) ==
    LET start_indices == StartIndices(mask)
        sums == Cumsum(start_indices)
        ranked == [k \in 1..Len(mask) |->
                      IF start_indices[k] # 0 THEN sums[k] ELSE start_indices[k]]
        ids == [k \in 1..Len(mask) |-> IF ranked[k] # 0 THEN vocab - ranked[k] ELSE 0]
    IN  [k \in 1..Len(mask) |-> ids[k] - (mask[k] - start_indices[k])]

\* --------------------------------- filter_input_ids (lines 373-387)

RECURSIVE SelectNonNegative(_)
SelectNonNegative(q) ==
    IF q = <<>> THEN <<>>
    ELSE (IF Head(q) >= 0 THEN <<Head(q)>> ELSE <<>>) \o SelectNonNegative(Tail(q))

\* line 380 broadcasts: the two rows must be as long as one another, unless
\* input_ids holds a single token, which is then repeated
Broadcasts(input_ids, sentinel_ids) ==
    Len(input_ids) = Len(sentinel_ids) \/ Len(input_ids) = 1 \/ Len(sentinel_ids) = 1

KeepSentinelDeletions(full) == full
DropNegative(full) == SelectNonNegative(full)

filter_input_ids(input_ids, sentinel_ids, eos) ==
    LET n == Max(Len(input_ids), Len(sentinel_ids))
        tok(k) == IF Len(input_ids) = 1 THEN input_ids[1] ELSE input_ids[k]
        sen(k) == IF Len(sentinel_ids) = 1 THEN sentinel_ids[1] ELSE sentinel_ids[k]
        input_ids_full == [k \in 1..n |-> IF sen(k) # 0 THEN sen(k) ELSE tok(k)]
    IN  Append(DropNegative(input_ids_full), eos)

\* ------------------------------ build_training_sample (lines 218-252)

Bit(b) == IF b THEN 1 ELSE 0

\* lines 231-236: the mask is drawn for expanded_inputs_length with the
\* density 0.15 and the mean span length 3
SampleMask ==
    /\ sample_pc = "idle"
    /\ \E out \in random_spans_noise_mask(expanded_inputs_length, 15, 3) :
           IF out.err = "none"
           THEN /\ mask_indices' = [k \in 1..Len(out.mask) |-> Bit(out.mask[k])]
                /\ sample_pc' = "masked"
           ELSE /\ mask_indices' = mask_indices
                /\ sample_pc' = out.err
    /\ UNCHANGED <<dsVars, expanded_inputs_length, tokens, vocab_len, eos_id,
                   input_ids_sentinel, labels_sentinel, text, prefix_len,
                   buildVars, planVars, genVars, rankVars>>

\* line 236, labels_mask = ~mask_indices
ComplementOmitted(mask) == mask
Complement(mask) == [k \in 1..Len(mask) |-> 1 - mask[k]]

\* lines 236-239: the sentinel ids of the mask and of its complement
SampleSentinels ==
    /\ sample_pc = "masked"
    /\ input_ids_sentinel' = create_sentinel_ids(mask_indices, vocab_len)
    /\ labels_sentinel' = create_sentinel_ids(Complement(mask_indices), vocab_len)
    /\ sample_pc' = "encoded"
    /\ UNCHANGED <<dsVars, expanded_inputs_length, tokens, vocab_len, eos_id, mask_indices,
                   text, prefix_len, buildVars, planVars, genVars, rankVars>>

\* lines 241-252
SampleAssemble ==
    /\ sample_pc = "encoded"
    /\ IF Broadcasts(tokens, input_ids_sentinel)
       THEN LET input_tokens_ids == filter_input_ids(tokens, input_ids_sentinel, eos_id)
                output_tokens_ids == filter_input_ids(tokens, labels_sentinel, eos_id)
            IN  /\ text' = input_tokens_ids \o output_tokens_ids
                /\ prefix_len' = Len(input_tokens_ids)
                /\ sample_pc' = "returned"
       ELSE /\ sample_pc' = "ValueError"
            /\ UNCHANGED <<text, prefix_len>>
    /\ UNCHANGED <<dsVars, expanded_inputs_length, tokens, vocab_len, eos_id, mask_indices,
                   input_ids_sentinel, labels_sentinel, buildVars, planVars, genVars, rankVars>>

\* the token ids 0, 1, ..., n-1
TokenArray(n) == [k \in 1..n |-> k - 1]

InitSample ==
    /\ \E e \in 1..MaxSampleLen, n \in 1..MaxSampleLen, v \in {40, 50} :
           /\ n \in {1, e - 1, e}
           /\ SampleInit(e, TokenArray(n), v, 1)
    /\ BuildInit(<<1>>, 1)
    /\ PlanInit(1, 15, 3)
    /\ RankInit(OneRank, <<1>>)
    /\ GenInit(2, 15, 3)
    /\ DatasetInit(<<>>, 0)

NextSample == SampleMask \/ SampleSentinels \/ SampleAssemble

SpecSample == InitSample /\ [][NextSample]_vars

\* create_sentinel_ids on any 0/1 mask
EncodeMask ==
    /\ sample_pc = "masked"
    /\ input_ids_sentinel' = create_sentinel_ids(mask_indices, vocab_len)
    /\ sample_pc' = "encoded"
    /\ UNCHANGED <<dsVars, expanded_inputs_length, tokens, vocab_len, eos_id, mask_indices,
                   labels_sentinel, text, prefix_len, buildVars, planVars, genVars, rankVars>>

InitSentinel ==
    /\ \E mask \in SeqsUpTo({0, 1}, MaxSentinelLen) \ {<<>>}, v \in {2, 3, 10} :
           /\ expanded_inputs_length = Len(mask)
           /\ tokens = TokenArray(Len(mask))
           /\ vocab_len = v
           /\ eos_id = 1
           /\ mask_indices = mask
           /\ input_ids_sentinel = <<>>
           /\ labels_sentinel = <<>>
           /\ text = <<>>
           /\ prefix_len = 0
           /\ sample_pc = "masked"
    /\ BuildInit(<<1>>, 1)
    /\ PlanInit(1, 15, 3)
    /\ RankInit(OneRank, <<1>>)
    /\ GenInit(2, 15, 3)
    /\ DatasetInit(<<>>, 0)

NextSentinel == EncodeMask

SpecSentinel == InitSentinel /\ [][NextSentinel]_vars

\* ------------- the ranks of the world in get_samples_mapping (283-354)

Ranks == DOMAIN pc

WorldSize == topo.tp * topo.pp * topo.dp

\* The parallel groups of a rank, as mpu lays them out: the ranks of a
\* tensor model parallel group are adjacent, a data parallel group holds the
\* ranks of one pipeline stage with the same tensor rank, a pipeline model
\* parallel group the ranks with the same tensor and data rank.
TensorRank(p) == p % topo.tp
DataRank(p) == (p \div topo.tp) % topo.dp
PipelineRank(p) == p \div (topo.tp * topo.dp)

DataParallelGroup(p) ==
    {q \in Ranks : TensorRank(q) = TensorRank(p) /\ PipelineRank(q) = PipelineRank(p)}

PipelineModelParallelGroup(p) ==
    {q \in Ranks : TensorRank(q) = TensorRank(p) /\ DataRank(q) = DataRank(p)}

RECURSIVE SumOver(_, _)
SumOver(S, f) ==
    IF S = {} THEN 0
    ELSE LET x == CHOOSE y \in S : TRUE IN f[x] + SumOver(S \ {x}, f)

\* lines 284-285: rank 0 builds when there is no file; every other rank, and
\* rank 0 when the file is there, goes on to line 337
Check(p) ==
    /\ pc[p] = "start"
    /\ IF p = 0 /\ file.state = "absent"
       THEN /\ pc' = [pc EXCEPT ![p] = "build"]
            /\ build_pc' = "idle"
            /\ max_len' = call_len[round[p]]
       ELSE /\ pc' = [pc EXCEPT ![p] = "reduce_dp"]
            /\ UNCHANGED <<build_pc, max_len>>
    /\ UNCHANGED <<dsVars, sizes, doc_i, samples_mapping, sample_indices, current_len,
                   remainder, file, topo, call_len, round, dp_seq, pp_seq, counts,
                   loaded, writes, planVars, genVars, sampleVars>>

\* lines 286-333, run by rank 0 alone
RankZeroStartBuild == pc[0] = "build" /\ StartBuild
RankZeroBuildDoc == pc[0] = "build" /\ BuildDoc
RankZeroSaveBegin == pc[0] = "build" /\ SaveBegin
RankZeroSaveEnd == pc[0] = "build" /\ SaveEnd

\* has rank p reached line 337?
AtReduce(p) == pc[p] = "reduce_dp" \/ (pc[p] = "build" /\ build_pc = "saved")

\* lines 337-338: counts = [1] joins the all_reduce of the data parallel group
EnterDataParallelReduce(p) ==
    /\ AtReduce(p)
    /\ counts' = [counts EXCEPT ![p] = 1]
    /\ dp_seq' = [dp_seq EXCEPT ![p] = @ + 1]
    /\ pc' = [pc EXCEPT ![p] = "in_reduce_dp"]
    /\ UNCHANGED <<dsVars, buildVars, topo, call_len, round, pp_seq, loaded, writes,
                   planVars, genVars, sampleVars>>

\* an all_reduce is over for a rank once every rank of the group has joined it
DataParallelReduced(p) == \A q \in DataParallelGroup(p) : dp_seq[q] >= dp_seq[p]
PipelineReduced(p) == \A q \in PipelineModelParallelGroup(p) : pp_seq[q] >= pp_seq[p]

\* line 339: the sum over the data parallel group joins the all_reduce of the
\* pipeline model parallel group
EnterPipelineReduce(p) ==
    /\ pc[p] = "in_reduce_dp"
    /\ DataParallelReduced(p)
    /\ counts' = [counts EXCEPT ![p] = Cardinality(DataParallelGroup(p))]
    /\ pp_seq' = [pp_seq EXCEPT ![p] = @ + 1]
    /\ pc' = [pc EXCEPT ![p] = "in_reduce_pp"]
    /\ UNCHANGED <<dsVars, buildVars, topo, call_len, round, dp_seq, loaded, writes,
                   planVars, genVars, sampleVars>>

\* lines 340-342: counts[0].item() waits for the sum, which is asserted to
\* be world_size // tensor model parallel world size
AssertCounts(p) ==
    /\ pc[p] = "in_reduce_pp"
    /\ PipelineReduced(p)
    /\ LET total == SumOver(PipelineModelParallelGroup(p),
                            [q \in Ranks |-> Cardinality(DataParallelGroup(q))])
       IN  /\ counts' = [counts EXCEPT ![p] = total]
           /\ pc' = [pc EXCEPT ![p] = IF total = WorldSize \div topo.tp
                                      THEN "load" ELSE "AssertionError"]
    /\ UNCHANGED <<dsVars, buildVars, topo, call_len, round, dp_seq, pp_seq, loaded, writes,
                   planVars, genVars, sampleVars>>

\* line 348, np.load: it raises when there is no file, and when the file is
\* still being written it reads what is there of it
Load(p) ==
    /\ pc[p] = "load"
    /\ loaded' = [loaded EXCEPT ![p] = file]
    /\ pc' = [pc EXCEPT ![p] = CASE file.state = "absent" -> "FileNotFoundError"
                                 [] file.state = "partial" -> "partial_read"
                                 [] OTHER -> "returned"]
    /\ UNCHANGED <<dsVars, buildVars, topo, call_len, round, dp_seq, pp_seq, counts, writes,
                   planVars, genVars, sampleVars>>

\* the dataset of the same corpus and split is constructed once more
NextConstruction(p) ==
    /\ pc[p] = "returned"
    /\ round[p] < Len(call_len)
    /\ round' = [round EXCEPT ![p] = @ + 1]
    /\ pc' = [pc EXCEPT ![p] = "start"]
    /\ UNCHANGED <<dsVars, buildVars, topo, call_len, dp_seq, pp_seq, counts, loaded, writes,
                   planVars, genVars, sampleVars>>

Topologies ==
    {t \in [tp : 1..MaxWorld, pp : 1..MaxWorld, dp : 1..MaxWorld] :
        t.tp * t.pp * t.dp <= MaxWorld}

Init ==
    /\ \E sz \in {<<5, 5, 2>>, <<3, 9>>} : BuildInit(sz, 1)
    /\ \E t \in Topologies, lens \in [1..MaxConstructions -> {4, 5}] : RankInit(t, lens)
    /\ PlanInit(1, 15, 3)
    /\ GenInit(2, 15, 3)
    /\ SampleInit(2, <<0, 1>>, 4, 1)
    /\ DatasetInit(<<>>, 0)

AnyCheck == \E p \in Ranks : Check(p)
AnyEnterDataParallelReduce == \E p \in Ranks : EnterDataParallelReduce(p)
AnyEnterPipelineReduce == \E p \in Ranks : EnterPipelineReduce(p)
AnyAssertCounts == \E p \in Ranks : AssertCounts(p)
AnyLoad == \E p \in Ranks : Load(p)
AnyNextConstruction == \E p \in Ranks : NextConstruction(p)

Next ==
    \/ RankZeroStartBuild
    \/ RankZeroBuildDoc
    \/ RankZeroSaveBegin
    \/ RankZeroSaveEnd
    \/ AnyCheck
    \/ AnyEnterDataParallelReduce
    \/ AnyEnterPipelineReduce
    \/ AnyAssertCounts
    \/ AnyLoad
    \/ AnyNextConstruction

Spec == Init /\ [][Next]_vars

\* ------------------------------------------------- the planner's claims

input_len(t) == TokensLengthToLengths(t, 15, 3).input

PlannerResultFits ==
    /\ tokens_length >= inputs_length
    /\ input_len(tokens_length) <= inputs_length
    /\ inputs_length < input_len(tokens_length + 1)
    /\ \A t \in (tokens_length + 1)..(2 * inputs_length + 2) :
           input_len(t) > inputs_length

PlannerCase == noise_density = 15 /\ mean_noise_span_length = 3

\* C10 as stated: for every W >= 1 with d = 0.15 and m = 3 the planner
\* returns the largest T >= W with input_len(T) <= W < input_len(T+1).
C10_PlannerFitsEveryLength ==
    (plan_pc = "returned" /\ PlannerCase) => PlannerResultFits

\* C10, amended: for every W >= 4 with d = 0.15 and m = 3 the loop runs at
\* most W times and returns the largest T >= W with
\* input_len(T) <= W < input_len(T+1); for W < 4 no token is noise
\* (round(0.15 * W) = 0) and input_len(W) = W + 1 already exceeds W.
C10_PlannerFitsFromFour ==
    PlannerCase =>
        /\ plan_pc = "loop" =>
               (inputs_length <= tokens_length /\ tokens_length <= 2 * inputs_length)
        /\ (plan_pc = "returned" /\ inputs_length >= 4) => PlannerResultFits
        /\ (plan_pc = "returned" /\ inputs_length < 4) =>
               (tokens_length = inputs_length
                    /\ input_len(tokens_length) = inputs_length + 1)

C10_Witness ==
    /\ plan_pc = "returned"
    /\ PlannerCase
    /\ inputs_length = 512
    /\ tokens_length > inputs_length

\* ------------------------------------------------- the builder's claims

SpanLen(sp) == sp[3] - sp[2]

SampleLen(s) == SumSeq([k \in 1..Len(s) |-> SpanLen(s[k])])

\* the tokens of a span, each named by its document and its offset in it
SpanTokens(sp) == [k \in 1..SpanLen(sp) |-> <<sp[1], sp[2] + k - 1>>]

RECURSIVE FlatSample(_)
FlatSample(s) == IF s = <<>> THEN <<>> ELSE SpanTokens(Head(s)) \o FlatSample(Tail(s))

\* the corpus token stream: the documents in corpus order, each from offset 0
RECURSIVE StreamFrom(_, _)
StreamFrom(sz, k) ==
    IF k > Len(sz) THEN <<>>
    ELSE SpanTokens(<<k - 1, 0, sz[k]>>) \o StreamFrom(sz, k + 1)

Stream(sz) == StreamFrom(sz, 1)

\* C3: every sample appended to samples_mapping is a list of spans whose
\* lengths sum to exactly the window length max_len.
C3_SamplesFillWindow ==
    \A k \in 1..Len(samples_mapping) : SampleLen(samples_mapping[k]) = max_len

C3_Witness ==
    /\ build_pc = "saved"
    /\ Len(samples_mapping) >= 2
    /\ \E k \in 1..Len(samples_mapping) : Len(samples_mapping[k]) >= 2

\* C4: read in emission order the emitted spans are a prefix of the corpus
\* token stream: sample k covers exactly the stream positions
\* [(k-1)*W + 1, k*W] (1-based), and inside a sample no document is cut, so
\* a document is cut only where a window ends.
C4_SamplesArePrefixOfStream ==
    \A k \in 1..Len(samples_mapping) :
        /\ k * max_len <= Len(Stream(sizes))
        /\ FlatSample(samples_mapping[k])
               = SubSeq(Stream(sizes), (k - 1) * max_len + 1, k * max_len)
        /\ \A j \in 1..(Len(samples_mapping[k]) - 1) :
               samples_mapping[k][j][1] # samples_mapping[k][j + 1][1]

C4_Witness ==
    /\ build_pc = "saved"
    /\ Len(samples_mapping) >= 2
    /\ \E k \in 1..Len(samples_mapping) :
           \E j \in 1..Len(samples_mapping[k]) :
               /\ samples_mapping[k][j][2] > 0
               /\ Len(samples_mapping[k]) > j

\* C5: when the build is over, fewer than W tokens are left in the
\* accumulator, so a corpus of N tokens yields floor(N/W) samples; document
\* lengths [5, 5, 2] with W = 4 yield the three samples of the example.
C5_TailShorterThanWindow ==
    build_pc = "saved" =>
        /\ current_len <= max_len - 1
        /\ Len(samples_mapping) = SumSeq(sizes) \div max_len
        /\ (sizes = <<5, 5, 2>> /\ max_len = 4) =>
               samples_mapping = << <<<<0, 0, 4>>>>,
                                    <<<<0, 4, 5>>, <<1, 0, 3>>>>,
                                    <<<<1, 3, 5>>, <<2, 0, 2>>>> >>

\* C6: a document remainder of at least W tokens is cut without error into
\* chunks of exactly W tokens, each emitted at once as a one-span sample, and
\* only the last chunk, shorter than W, goes to the accumulator.
C6_LongRemainderIsCut ==
    (build_pc # "idle" /\ remainder >= max_len) =>
        /\ build_pc # "TypeError"
        /\ current_len = remainder % max_len
        /\ Len(samples_mapping) >= remainder \div max_len
        /\ \A k \in (Len(samples_mapping) - remainder \div max_len + 1)
                        ..Len(samples_mapping) :
               /\ Len(samples_mapping[k]) = 1
               /\ SpanLen(samples_mapping[k][1]) = max_len

\* --------------------------------------- the mask generator's claims

TrueCount(mask) == Cardinality({k \in 1..Len(mask) : mask[k]})

\* the maximal contiguous runs of true, counted by their first positions
RunCount(mask) ==
    Cardinality({k \in 1..Len(mask) : mask[k] /\ (k = 1 \/ ~mask[k - 1])})

MaskAsClaimed(out, length, m) ==
    /\ out.err = "none"
    /\ Len(out.mask) = length
    /\ 1 <= TrueCount(out.mask)
    /\ TrueCount(out.mask) <= length - 1
    /\ RunCount(out.mask) = Max(1, RoundHalfEven(TrueCount(out.mask), m))

SpansFit(length, d, m) ==
    /\ length >= 2
    /\ NumNoiseSpans(NumNoiseTokens(length, d), m)
           <= length - NumNoiseTokens(length, d)

RunStart(mask, k) == mask[k] = 1 /\ (k = 1 \/ mask[k - 1] = 0)

RunRank(mask, k) == Cardinality({j \in 1..k : RunStart(mask, j)})

\* C8: the sentinel ids are as long as the mask; an unmasked position holds
\* 0, the first position of the k-th masked run holds vocab_len - k, every
\* other masked position holds -1; position 0 starts a run iff it is
\* masked, whatever the last position holds.
C8_SentinelIds ==
    sample_pc = "encoded" =>
        /\ Len(input_ids_sentinel) = Len(mask_indices)
        /\ \A k \in 1..Len(mask_indices) :
               input_ids_sentinel[k] =
                   IF mask_indices[k] = 0 THEN 0
                   ELSE IF RunStart(mask_indices, k)
                        THEN vocab_len - RunRank(mask_indices, k)
                        ELSE -1

C8_Witness ==
    /\ sample_pc = "encoded"
    /\ Len(mask_indices) >= 5
    /\ mask_indices[1] = 1
    /\ mask_indices[Len(mask_indices)] = 1
    /\ RunRank(mask_indices, Len(mask_indices)) >= 2
    /\ \E k \in 1..Len(mask_indices) : input_ids_sentinel[k] = -1

\* ------------------------------------------- the assembler's claims

Ones(mask) == Cardinality({k \in 1..Len(mask) : mask[k] = 1})

\* C9: for a token array as long as the mask, with n noise tokens in s
\* noise spans, the input stream has (L - n) + s + 1 tokens and the target
\* stream n + s + 1, each ending with the end token; text has L + 2s + 2
\* tokens and prefix_len is the length of the input stream.
C9_StreamLengths ==
    (Len(tokens) = expanded_inputs_length /\ expanded_inputs_length >= 2) =>
        /\ sample_pc \in {"idle", "masked", "encoded", "returned"}
        /\ sample_pc = "returned" =>
               LET L == Len(tokens)
                   n == Ones(mask_indices)
                   s == RunRank(mask_indices, L)
               IN  /\ prefix_len = (L - n) + s + 1
                   /\ Len(text) - prefix_len = n + s + 1
                   /\ Len(text) = L + 2 * s + 2
                   /\ text[prefix_len] = eos_id
                   /\ text[Len(text)] = eos_id

C9_Witness ==
    /\ sample_pc = "returned"
    /\ Len(tokens) = expanded_inputs_length
    /\ RunRank(mask_indices, Len(mask_indices)) = 2
    /\ Ones(mask_indices) = 5

\* ------------------------------------------- the build-once claims

PastBarrier(p) ==
    pc[p] \in {"load", "returned", "FileNotFoundError", "partial_read"}

\* C1: no rank starts loading the file before rank 0 has finished writing
\* it: a rank that has passed the barrier of lines 337-342 finds the file
\* complete, whatever its tensor, pipeline and data parallel group.
C1_LoadAfterWrite ==
    \A p \in Ranks : PastBarrier(p) => file.state = "complete"

\* C1 restricted to the ranks that share rank 0's tensor rank: these do load
\* after the finished write
C1_LoadAfterWriteTensorRankZero ==
    \A p \in Ranks : (PastBarrier(p) /\ TensorRank(p) = 0) => file.state = "complete"

\* C2: over all constructions the file is written at most once (by rank 0,
\* when it is absent; never when it exists), and every rank loads the one
\* content written.
C2_WrittenOnceLoadedAlike ==
    /\ writes <= 1
    /\ \A p \in Ranks :
           /\ pc[p] \notin {"FileNotFoundError", "partial_read"}
           /\ (pc[p] = "returned" \/ round[p] > 1) =>
                  (writes = 1 /\ file.state = "complete" /\ loaded[p] = file)
    /\ \A p, q \in Ranks :
           (loaded[p] # NoFile /\ loaded[q] # NoFile) => loaded[p] = loaded[q]

\* C2, the part about writing alone: np.save runs at most once on the file
C2_WriteOnce == writes <= 1

\* ------------------------------------------- the planner's pair

\* C15: the pair compute_input_and_target_lengths returns is self-consistent
\* for every inputs_length, noise_density and mean_noise_span_length: the
\* returned targets_length is round(T * d) + round(round(T * d) / m) + 1 at
\* the returned tokens_length T, also when the density is 0.5 and both were
\* shortened by one.
C15_PlannerPairSelfConsistent ==
    plan_pc = "returned" =>
        targets_length = TokensLengthToLengths(tokens_length, noise_density,
                                               mean_noise_span_length).output

\* C15 without the shortening of lines 429-431: the pair is the one line 425
\* computed
C15_ConsistentWhenNotShortened ==
    (plan_pc = "returned" /\ noise_density # 50) =>
        targets_length = TokensLengthToLengths(tokens_length, noise_density,
                                               mean_noise_span_length).output

\* ------------------------------------------- the spans of the samples

\* C16: every span of every emitted sample is non-empty and inside its
\* document, 0 <= start < end <= length of the document; no zero-length
\* span is emitted when the accumulator holds exactly max_len tokens as the
\* next document arrives, or when a remainder is a multiple of max_len.
C16_SpansNonEmptyInsideDocument ==
    \A k \in 1..Len(samples_mapping) :
        \A j \in 1..Len(samples_mapping[k]) :
            LET sp == samples_mapping[k][j]
            IN  /\ 0 <= sp[2]
                /\ sp[2] < sp[3]
                /\ sp[3] <= sizes[sp[1] + 1]

\* C16 without the non-emptiness: every span lies inside its document
C16_SpansInsideDocument ==
    \A k \in 1..Len(samples_mapping) :
        \A j \in 1..Len(samples_mapping[k]) :
            LET sp == samples_mapping[k][j]
            IN  /\ 0 <= sp[2]
                /\ sp[2] <= sp[3]
                /\ sp[3] <= sizes[sp[1] + 1]

\* ------------------------------------------- the two streams of a sample

InputStream == SubSeq(text, 1, prefix_len)

TargetStream == SubSeq(text, prefix_len + 1, Len(text))

\* the sentinel ids a row of create_sentinel_ids holds
SentinelsOf(row) == {row[k] : k \in 1..Len(row)} \ {0, -1}

\* the tokens of tk at the positions where the mask is b, in order
RECURSIVE SelectAt(_, _, _)
SelectAt(tk, mask, b) ==
    IF tk = <<>> THEN <<>>
    ELSE (IF Head(mask) = b THEN <<Head(tk)>> ELSE <<>>)
             \o SelectAt(Tail(tk), Tail(mask), b)

\* a stream without its end token and without its sentinels
RECURSIVE WithoutSentinels(_, _)
WithoutSentinels(q, S) ==
    IF q = <<>> THEN <<>>
    ELSE (IF Head(q) \in S THEN <<>> ELSE <<Head(q)>>) \o WithoutSentinels(Tail(q), S)

OriginalTokens(stream, S) == WithoutSentinels(SubSeq(stream, 1, Len(stream) - 1), S)

RECURSIVE TakeUntilSentinel(_, _)
TakeUntilSentinel(q, S) ==
    IF q = <<>> \/ Head(q) \in S THEN <<>>
    ELSE <<Head(q)>> \o TakeUntilSentinel(Tail(q), S)

\* the tokens that follow the sentinel x in the target stream, up to the
\* next sentinel or the end token
SegmentAfter(target, x, S) ==
    LET body == SubSeq(target, 1, Len(target) - 1)
        at == {k \in 1..Len(body) : body[k] = x}
    IN  IF at = {} THEN <<>>
        ELSE LET k == CHOOSE j \in at : \A i \in at : j <= i
             IN  TakeUntilSentinel(SubSeq(body, k + 1, Len(body)), S)

\* the input stream with each sentinel replaced by its segment of the target
RECURSIVE Substitute(_, _, _)
Substitute(q, target, S) ==
    IF q = <<>> THEN <<>>
    ELSE (IF Head(q) \in S THEN SegmentAfter(target, Head(q), S) ELSE <<Head(q)>>)
             \o Substitute(Tail(q), target, S)

Recovered ==
    Substitute(SubSeq(InputStream, 1, prefix_len - 1), TargetStream,
               SentinelsOf(input_ids_sentinel))

\* C17: for a token array and a generated mask of its length, every position
\* is kept as an original token in exactly one of the two streams, the
\* non-noise positions in the input stream and the noise positions in the
\* target stream, both in the original order; and replacing each sentinel of
\* the input stream by the tokens that follow the same sentinel id in the
\* target stream, up to the next sentinel or the end token, gives the
\* original array back.
C17_StreamsPartitionAndRecover ==
    (Len(tokens) = expanded_inputs_length /\ sample_pc = "returned") =>
        /\ OriginalTokens(InputStream, SentinelsOf(input_ids_sentinel))
               = SelectAt(tokens, mask_indices, 0)
        /\ OriginalTokens(TargetStream, SentinelsOf(labels_sentinel))
               = SelectAt(tokens, mask_indices, 1)
        /\ SentinelsOf(input_ids_sentinel) = SentinelsOf(labels_sentinel)
        /\ Recovered = tokens

C17_Witness ==
    /\ sample_pc = "returned"
    /\ Len(tokens) = expanded_inputs_length
    /\ RunRank(mask_indices, Len(mask_indices)) = 2
    /\ \E k \in 2..(Len(mask_indices) - 1) :
           mask_indices[k - 1] = 1 /\ mask_indices[k] = 0
    /\ Recovered = tokens

\* ------------------------------------------- the ranks under fair scheduling

\* the steps of get_samples_mapping rank p takes by itself once it is called
RankStep(p) ==
    /\ p \in Ranks
    /\ \/ Check(p)
       \/ (p = 0 /\ (RankZeroStartBuild \/ RankZeroBuildDoc
                        \/ RankZeroSaveBegin \/ RankZeroSaveEnd))
       \/ EnterDataParallelReduce(p)
       \/ EnterPipelineReduce(p)
       \/ AssertCounts(p)
       \/ Load(p)

\* every rank that can go on in get_samples_mapping does go on; whether the
\* dataset is constructed once more is left to the caller
FairSpec == Init /\ [][Next]_vars /\ \A p \in 0..(MaxWorld - 1) : WF_vars(RankStep(p))

HasLoaded(p) == loaded[p].state = "complete"

\* C13: under fair scheduling, once the file is there (it was there before,
\* or rank 0 has built and written it), every rank of the world gets past
\* the barrier and loads it; a rank waits for ever only when rank 0 never
\* reaches the barrier.
C13_EveryRankLoads ==
    \A p \in 0..(MaxWorld - 1) :
        (p \in Ranks /\ file.state = "complete") ~> (p \in Ranks /\ HasLoaded(p))

\* C13 for the worlds without tensor model parallelism, where the barrier
\* covers every rank
C13_EveryRankLoadsTensorOne ==
    \A p \in 0..(MaxWorld - 1) :
        (p \in Ranks /\ topo.tp = 1 /\ file.state = "complete")
            ~> (p \in Ranks /\ HasLoaded(p))

\* ------------------------------ NonCausalMLMDataset (lines 152-215)

\* how far the while loop of the planner is followed
MaxTokensLength == 16

\* line 167
max_ngrams == 3

\* indexed_dataset.get(doc_idx): every token of document doc has the id doc + 2
DocumentTokens(doc) == [k \in 1..sizes[doc + 1] |-> doc + 2]

\* seq[start:end]
Slice(seq, start, end) == SubSeq(seq, start + 1, Min(end, Len(seq)))

\* lines 206-209 and 229: the slices of the spans of a sample, flattened
RECURSIVE Flatten(_)
Flatten(indices) ==
    IF indices = <<>> THEN <<>>
    ELSE Slice(DocumentTokens(Head(indices)[1]), Head(indices)[2], Head(indices)[3])
             \o Flatten(Tail(indices))

\* lines 154-164: __init__ is entered with the arguments cfg
Entered(cfg) ==
    [NoDataset EXCEPT !.pc = "init",
                      !.max_seq_length = cfg.max_seq_length,
                      !.masked_lm_prob = cfg.masked_lm_prob]

\* lines 172-176, compute_input_and_target_lengths called by __init__
DatasetPlanStart == self.pc = "init" /\ PlanStart
DatasetPlanGrow == self.pc = "init" /\ tokens_length < MaxTokensLength /\ PlanGrow
DatasetPlanReturn == self.pc = "init" /\ PlanReturn

\* lines 177-186: the lengths are stored and get_samples_mapping is called
\* with max_len = expanded_inputs_length
CallGetSamplesMapping ==
    /\ self.pc = "init"
    /\ plan_pc = "returned"
    /\ self' = [self EXCEPT !.expanded_inputs_length = tokens_length,
                            !.targets_length = targets_length,
                            !.pc = "mapping"]
    /\ call_len' = [call_len EXCEPT ![round[0]] = tokens_length]
    /\ pc' = [pc EXCEPT ![0] = "start"]
    /\ UNCHANGED <<configs, tokenizer, buildVars, topo, round, dp_seq, pp_seq, counts,
                   loaded, writes, planVars, genVars, sampleVars>>

\* lines 181 and 188-199: the mapping is stored, and the sentinel ids of the
\* tokenizer are asserted to be there
FinishInit ==
    /\ self.pc = "mapping"
    /\ pc[0] = "returned"
    /\ self' = [self EXCEPT !.samples_mapping = loaded[0].mapping,
                            !.pc = IF tokenizer > 0 THEN "constructed"
                                   ELSE "AssertionError"]
    /\ pc' = [pc EXCEPT ![0] = "caller"]
    /\ UNCHANGED <<configs, tokenizer, buildVars, topo, call_len, round, dp_seq, pp_seq,
                   counts, loaded, writes, planVars, genVars, sampleVars>>

InSample == sample_pc \in {"idle", "masked", "encoded"}

\* lines 204-215, __getitem__ up to the flattening of line 229
GetItem(idx) ==
    /\ self.pc = "constructed"
    /\ ~InSample
    /\ idx \in 1..Len(self.samples_mapping)
    /\ tokens' = Flatten(self.samples_mapping[idx])
    /\ expanded_inputs_length' = self.expanded_inputs_length
    /\ mask_indices' = <<>>
    /\ input_ids_sentinel' = <<>>
    /\ labels_sentinel' = <<>>
    /\ text' = <<>>
    /\ prefix_len' = 0
    /\ sample_pc' = "idle"
    /\ UNCHANGED <<dsVars, vocab_len, eos_id, buildVars, planVars, genVars, rankVars>>

AnyGetItem == \E idx \in 1..Len(self.samples_mapping) : GetItem(idx)

\* lines 115-137: the dataset of the same corpus and split is constructed in
\* a later run, with the arguments of that run
ConstructAgain ==
    /\ self.pc \in {"constructed", "AssertionError"}
    /\ ~InSample
    /\ round[0] < Len(configs)
    /\ round' = [round EXCEPT ![0] = @ + 1]
    /\ self' = Entered(configs[round[0] + 1])
    /\ inputs_length' = configs[round[0] + 1].max_seq_length
    /\ noise_density' = configs[round[0] + 1].masked_lm_prob
    /\ mean_noise_span_length' = max_ngrams
    /\ tokens_length' = 0
    /\ targets_length' = 0
    /\ plan_pc' = "idle"
    /\ tokens' = <<>>
    /\ expanded_inputs_length' = 0
    /\ mask_indices' = <<>>
    /\ input_ids_sentinel' = <<>>
    /\ labels_sentinel' = <<>>
    /\ text' = <<>>
    /\ prefix_len' = 0
    /\ sample_pc' = "none"
    /\ UNCHANGED <<configs, tokenizer, vocab_len, eos_id, buildVars, topo, call_len, pc,
                   dp_seq, pp_seq, counts, loaded, writes, genVars>>

\* the arguments a run may give: max_seq_length and masked_lm_prob in
\* hundredths, 0 and 150 being outside (0, 1)
Configs == [max_seq_length : {4, 10}, masked_lm_prob : {0, 15, 50, 150}]

InitDataset ==
    /\ \E cfgs \in [1..MaxConstructions -> Configs], tk \in {0, 100} :
           /\ self = Entered(cfgs[1])
           /\ configs = cfgs
           /\ tokenizer = tk
           /\ PlanInit(cfgs[1].max_seq_length, cfgs[1].masked_lm_prob, max_ngrams)
    /\ \E sz \in {<<3, 3, 3, 3, 3>>, <<5, 5, 2>>} : BuildInit(sz, 1)
    /\ topo = OneRank
    /\ call_len = [k \in 1..MaxConstructions |-> 0]
    /\ pc = [p \in {0} |-> "caller"]
    /\ round = [p \in {0} |-> 1]
    /\ dp_seq = [p \in {0} |-> 0]
    /\ pp_seq = [p \in {0} |-> 0]
    /\ counts = [p \in {0} |-> 0]
    /\ loaded = [p \in {0} |-> NoFile]
    /\ writes = 0
    /\ GenInit(2, 15, 3)
    /\ expanded_inputs_length = 0
    /\ tokens = <<>>
    /\ vocab_len = 40
    /\ eos_id = 1
    /\ mask_indices = <<>>
    /\ input_ids_sentinel = <<>>
    /\ labels_sentinel = <<>>
    /\ text = <<>>
    /\ prefix_len = 0
    /\ sample_pc = "none"

NextDataset ==
    \/ DatasetPlanStart
    \/ DatasetPlanGrow
    \/ DatasetPlanReturn
    \/ CallGetSamplesMapping
    \/ AnyCheck
    \/ RankZeroStartBuild
    \/ RankZeroBuildDoc
    \/ RankZeroSaveBegin
    \/ RankZeroSaveEnd
    \/ AnyEnterDataParallelReduce
    \/ AnyEnterPipelineReduce
    \/ AnyAssertCounts
    \/ AnyLoad
    \/ FinishInit
    \/ AnyGetItem
    \/ SampleMask
    \/ SampleSentinels
    \/ SampleAssemble
    \/ ConstructAgain

SpecDataset == InitDataset /\ [][NextDataset]_vars

\* ------------------------------------------- the claims about the dataset

\* at(i) has been called on the constructed dataset
Serving == self.pc = "constructed" /\ sample_pc # "none"

\* C11: for every dataset and every index below its count, the flat token
\* array at(i) assembles has exactly expanded_inputs_length tokens, the
\* length the mask is generated for, also when the sample index was loaded
\* from a file that was already there for the corpus and the split, built by
\* an earlier construction with another length or density.
C11_FlatArrayHasRawLength ==
    Serving => Len(tokens) = self.expanded_inputs_length

\* C11 for a file that was built for the length of this dataset
C11_FlatArrayWhenBuiltForIt ==
    (Serving /\ file.max_len = self.expanded_inputs_length) =>
        Len(tokens) = self.expanded_inputs_length

InvalidConfiguration == self.masked_lm_prob \notin 1..99 \/ tokenizer = 0

\* C12: a construction with a noise density outside (0, 1), or with a
\* tokenizer without sentinel ids, ends in a configuration error and returns
\* no dataset: no dataset that serves samples comes of it.
C12_InvalidConfigurationRejected ==
    (self.pc # "none" /\ InvalidConfiguration) =>
        (self.pc # "constructed" /\ sample_pc = "none")

\* C12 for the tokenizer alone: line 199 does reject it
C12_ZeroSentinelsRejected ==
    (self.pc # "none" /\ tokenizer = 0) => (self.pc # "constructed" /\ sample_pc = "none")

\* C14: for masked_lm_prob in (0, 1), every sample at(i) returns has a
\* prefix_len equal to the input length the planner simulated for
\* expanded_inputs_length, hence at most max_seq_length, and a target stream
\* of the planner's targets_length.
C14_PrefixLenIsPlannedInputLength ==
    (Serving /\ sample_pc = "returned" /\ self.masked_lm_prob \in 1..99) =>
        /\ prefix_len = TokensLengthToLengths(self.expanded_inputs_length,
                                              self.masked_lm_prob, max_ngrams).input
        /\ prefix_len <= self.max_seq_length
        /\ Len(text) - prefix_len = self.targets_length

\* C14 for the density 0.15 the mask is drawn with, and lengths at which
\* the planner counts a noise span
C14_AtDensityOfTheMask ==
    (Serving /\ sample_pc = "returned" /\ self.masked_lm_prob = 15
        /\ self.max_seq_length >= 10) =>
        /\ prefix_len = TokensLengthToLengths(self.expanded_inputs_length,
                                              self.masked_lm_prob, max_ngrams).input
        /\ prefix_len <= self.max_seq_length
        /\ Len(text) - prefix_len = self.targets_length

\* the bound of C14 alone, at the lengths where the planner counts a noise
\* span: the input stream is no longer than max_seq_length
C14_PrefixFitsFromTen ==
    (Serving /\ sample_pc = "returned" /\ self.masked_lm_prob \in 1..99
        /\ self.max_seq_length >= 10) =>
        prefix_len <= self.max_seq_length

====
